---- MODULE Spec2Model ----
(***************************************************************************)
(* guessit/__init__.py: the filename disambiguation procedure              *)
(* (_guess_filename) and the result assembler (guess_file_info).           *)
(*                                                                         *)
(* Texts are sequences of one-character strings, so that len(), `in`,      *)
(* startswith(), split() and list.index() are computed and not assumed.    *)
(* What the matcher (guessit.matcher), merge_all (guessit.guess),          *)
(* clean_string (guessit.textutils), hashlib and the file system return is *)
(* input, drawn from small sets.                                           *)
(***************************************************************************)
EXTENDS Integers, Sequences, FiniteSets, TLC

VARIABLES
    \* ---- _guess_filename ----
    pc,        \* position in _guess_filename
    years,     \* set of year values found in the first tree (line 110)
    builds,    \* option sets passed to IterativeMatcher, in call order
    mtree,     \* the primary match tree
    mtree2,    \* the baseline match tree (nolanguage, nocountry)
    m,         \* mtree.matched()
    m2,        \* mtree2.matched()
    lang,      \* value of the chosen language node
    parts,     \* clean_string(title.root.value).split()
    ret,       \* "none" | "m" | "m2": which Guess was returned
    exc,       \* "none" | name of the exception that left _guess_filename
    via,       \* source line of the return / raise that ended the call
    warned,    \* log.warning calls made by warning()
    \* ---- guess_file_info ----
    fpc,       \* position in guess_file_info
    env,       \* what the world answers: file content, I/O failure, filename guess
    info,      \* the infotypes consumed so far by the loop of line 203
    result,    \* list of Guess
    hashers,   \* list of (infotype, hasher object)
    nobjs,     \* number of hasher objects created
    opens,     \* number of times the loop of line 241 opened the file
    final,     \* the returned mapping
    raised,    \* "none" | name of the exception that left guess_file_info
    logged     \* number of log.warning calls made by guess_file_info

gfvars == <<pc, years, builds, mtree, mtree2, m, m2, lang, parts, ret, exc, via, warned>>
fivars == <<fpc, env, info, result, hashers, nobjs, opens, final, raised, logged>>
vars == <<gfvars, fivars>>

----------------------------------------------------------------------------
(* Bounds *)
MaxLangs == 2      \* language nodes in one tree
MaxParts == 3      \* words in the file name
MaxInfo == 3       \* length of the requested_facts list
MaxChunks == 2     \* blocks in the file

----------------------------------------------------------------------------
(* Texts *)

\* len(lang.value) <= 3, line 152
ShortLen == 3

ita == <<"i", "t", "a">>
ital == <<"i", "t", "a", "l">>
job == <<"j", "o", "b">>

\* separators clean_string turns into blanks; the dash is not one of them
Seps == {".", "_"}

RECURSIVE Join(_, _)
Join(ws, sep) ==
    IF Len(ws) = 0 THEN <<>>
    ELSE IF Len(ws) = 1 THEN ws[1]
    ELSE ws[1] \o <<sep>> \o Join(Tail(ws), sep)

SeqsUpTo(S, lo, hi) == UNION {[1..n -> S] : n \in lo..hi}

\* s.startswith(p)
StartsWith(s, p) == Len(p) <= Len(s) /\ SubSeq(s, 1, Len(p)) = p

\* p in s, on texts
Contains(s, p) == \E i \in 0..(Len(s) - Len(p)) : SubSeq(s, i + 1, i + Len(p)) = p

\* clean_string on texts that have single inner separators
clean_string(s) == [i \in 1..Len(s) |-> IF s[i] \in Seps THEN " " ELSE s[i]]

\* s.split()
RECURSIVE SplitFrom(_, _, _)
SplitFrom(s, i, cur) ==
    IF i > Len(s) THEN (IF cur = <<>> THEN <<>> ELSE <<cur>>)
    ELSE IF s[i] = " "
         THEN (IF cur = <<>> THEN <<>> ELSE <<cur>>) \o SplitFrom(s, i + 1, <<>>)
         ELSE SplitFrom(s, i + 1, Append(cur, s[i]))
split(s) == SplitFrom(s, 1, <<>>)

\* parts.index(x), 0-based; -1 stands for ValueError
index(ps, x) ==
    IF \E i \in 1..Len(ps) : ps[i] = x
    THEN (CHOOSE i \in 1..Len(ps) : ps[i] = x /\ \A j \in 1..(i - 1) : ps[j] # x) - 1
    ELSE -1

----------------------------------------------------------------------------
(* Match trees and Guesses *)

Years == {1984, 2010}
Types == {"movie", "moviesubtitle", "episodesubtitle"}
LangProps == {"language", "subtitleLanguage"}

NoNode == [present |-> FALSE, value |-> <<>>, explicit |-> FALSE]
TitleValues == {Join(<<ital, job>>, "."), Join(<<job, ital>>, "."), job}
TitleNodes == [present : {TRUE}, value : TitleValues, explicit : BOOLEAN] \cup {NoNode}

LangNodes == {[value |-> ita, prop |-> "language"],
              [value |-> ital, prop |-> "language"],
              [value |-> ital, prop |-> "subtitleLanguage"]}

\* the file names: words joined by a separator or by dashes
RootValues == {Join(ws, sep) : ws \in SeqsUpTo({ital, job}, 1, MaxParts), sep \in {".", "-"}}

NoTree == [title |-> NoNode, langs |-> <<>>, type |-> "", year |-> 0]
NoGuess == [keys |-> {}, title |-> <<>>, type |-> "", year |-> 0]

\* what IterativeMatcher(filename, filetype, opts).match_tree can be; a type of ""
\* or a year of 0 says that no node carries such a guess
Trees(opts) ==
    [title : TitleNodes,
     langs : IF "nolanguage" \in opts THEN {<<>>} ELSE SeqsUpTo(LangNodes, 0, MaxLangs),
     type  : Types \cup {""},
     year  : Years \cup {0}]

\* the year the merge can keep when the year nodes carry the values ys
YearOf(ys) == IF ys = {} THEN {0} ELSE ys

\* MatchTree.matched(): the merge of the nodes' guesses
matched(tree) ==
    [keys  |-> (IF tree.title.present THEN {"title"} ELSE {})
               \cup {tree.langs[i].prop : i \in 1..Len(tree.langs)}
               \cup (IF tree.type = "" THEN {} ELSE {"type"})
               \cup (IF tree.year = 0 THEN {} ELSE {"year"}),
     title |-> clean_string(tree.title.value),
     type  |-> tree.type,
     year  |-> tree.year]

\* g.get('title'): (found, value)
GetTitle(g) == IF "title" \in g.keys THEN <<TRUE, g.title>> ELSE <<FALSE, <<>>>>

----------------------------------------------------------------------------
(* _guess_filename *)

StartGF ==
    /\ pc = "start"
    /\ years = {}
    /\ builds = <<>>
    /\ mtree = NoTree
    /\ mtree2 = NoTree
    /\ m = NoGuess
    /\ m2 = NoGuess
    /\ lang = <<>>
    /\ parts = <<>>
    /\ ret = "none"
    /\ exc = "none"
    /\ via = 0
    /\ warned = <<>>

\* return m / return m2 at source line ln
Return(which, ln) ==
    /\ pc' = "done"
    /\ ret' = which
    /\ via' = ln
    /\ exc' = exc

\* an exception leaves the function at source line ln
Raise(e, ln) ==
    /\ pc' = "done"
    /\ exc' = e
    /\ via' = ln
    /\ ret' = ret

Goto(l) ==
    /\ pc' = l
    /\ UNCHANGED <<ret, exc, via>>

\* line 106 and 110: the first tree and the year values of its nodes
BuildPrimary ==
    /\ pc = "start"
    /\ \E ys \in SUBSET Years : \E t \in Trees({}) :
         /\ t.year \in YearOf(ys)
         /\ years' = ys
         /\ mtree' = t
    /\ builds' = Append(builds, {})
    /\ Goto("years")
    /\ UNCHANGED <<mtree2, m, m2, lang, parts, warned>>
    /\ UNCHANGED fivars

\* lines 111-113: two or more years, reparse with skip_first_year
ScanYears ==
    /\ pc = "years"
    /\ IF Cardinality(years) >= 2
       THEN /\ mtree' \in Trees({"skip_first_year"})
            /\ builds' = Append(builds, {"skip_first_year"})
       ELSE UNCHANGED <<mtree, builds>>
    /\ Goto("match")
    /\ UNCHANGED <<years, mtree2, m, m2, lang, parts, warned>>
    /\ UNCHANGED fivars

\* lines 116-119
MatchPrimary ==
    /\ pc = "match"
    /\ m' = matched(mtree)
    /\ IF "language" \notin m'.keys /\ "subtitleLanguage" \notin m'.keys
       THEN Return("m", 119)
       ELSE Goto("baseline")
    /\ UNCHANGED <<years, builds, mtree, mtree2, m2, lang, parts, warned>>
    /\ UNCHANGED fivars

\* lines 122-128: the baseline tree, built from the same file name
BuildBaseline ==
    /\ pc = "baseline"
    /\ \E t \in Trees({"nolanguage", "nocountry"}) :
         /\ t.year \in YearOf(years)
         /\ t.type = mtree.type
         /\ mtree2' = t
    /\ builds' = Append(builds, {"nolanguage", "nocountry"})
    /\ m2' = matched(mtree2')
    /\ IF ~GetTitle(m)[1]
       THEN Return("m", 128)
       ELSE Goto("compare")
    /\ UNCHANGED <<years, mtree, m, lang, parts, warned>>
    /\ UNCHANGED fivars

\* lines 130 and 181
CompareTitles ==
    /\ pc = "compare"
    /\ IF GetTitle(m) # GetTitle(m2)
       THEN Goto("nodes")
       ELSE Return("m", 181)
    /\ UNCHANGED <<years, builds, mtree, mtree2, m, m2, lang, parts, warned>>
    /\ UNCHANGED fivars

\* find_nodes(tree, ['language', 'subtitleLanguage']), lines 94-100 and 134
find_langs(tree) == tree.langs

\* lines 131-136: next() on an empty generator raises StopIteration
FindNodes ==
    /\ pc = "nodes"
    /\ IF ~mtree.title.present
       THEN Raise("StopIteration", 131) /\ UNCHANGED warned
       ELSE IF ~mtree2.title.present
       THEN Raise("StopIteration", 132) /\ UNCHANGED warned
       ELSE IF find_langs(mtree) = <<>>
       THEN /\ warned' = Append(warned, "A weird error happened with language detection")
            /\ Return("m", 136)
       ELSE Goto("pick") /\ UNCHANGED warned
    /\ UNCHANGED <<years, builds, mtree, mtree2, m, m2, lang, parts>>
    /\ UNCHANGED fivars

\* lines 139-147: the first language node whose value is in title2.value, else langs[0]
ChooseLang(langs, title2value) ==
    IF \E i \in 1..Len(langs) : Contains(title2value, langs[i].value)
    THEN langs[CHOOSE i \in 1..Len(langs) :
                 /\ Contains(title2value, langs[i].value)
                 /\ \A j \in 1..(i - 1) : ~Contains(title2value, langs[j].value)].value
    ELSE langs[1].value

PickLang ==
    /\ pc = "pick"
    /\ lang' = ChooseLang(find_langs(mtree), mtree2.title.value)
    /\ Goto("short")
    /\ UNCHANGED <<years, builds, mtree, mtree2, m, m2, parts, warned>>
    /\ UNCHANGED fivars

\* the test of line 152 with < in place of <=
IsShortCodeStrict(value) == Len(value) < ShortLen

\* line 152
IsShortCode(value) == Len(value) <= ShortLen

\* lines 152-153
ShortCode ==
    /\ pc = "short"
    /\ IF IsShortCode(lang)
       THEN Return("m", 153)
       ELSE Goto("subtitle")
    /\ UNCHANGED <<years, builds, mtree, mtree2, m, m2, lang, parts, warned>>
    /\ UNCHANGED fivars

\* line 160
IsTrailing(ps, value) == index(ps, value) = Len(ps) - 2

\* lines 158-161; the file name holds the language token
SubtitleRule ==
    /\ pc = "subtitle"
    /\ \E root \in RootValues :
         /\ Contains(root, lang)
         /\ parts' = split(clean_string(root))
    /\ IF "type" \notin m.keys
       THEN Raise("KeyError", 159)
       ELSE IF m.type \in {"moviesubtitle", "episodesubtitle"}
       THEN IF index(parts', lang) = -1
            THEN Raise("ValueError", 160)
            ELSE IF IsTrailing(parts', lang)
            THEN Return("m", 161)
            ELSE Goto("position")
       ELSE Goto("position")
    /\ UNCHANGED <<years, builds, mtree, mtree2, m, m2, lang, warned>>
    /\ UNCHANGED fivars

\* the two tests of lines 166-169 in the other order
PositionChoiceSwapped(m2title, title2value, value) ==
    IF Contains(title2value, value) THEN "m2"
    ELSE IF StartsWith(m2title, value) THEN "m"
    ELSE "next"

\* lines 166-169: "m", "m2" or "next"
PositionChoice(m2title, title2value, value) ==
    IF StartsWith(m2title, value) THEN "m"
    ELSE IF Contains(title2value, value) THEN "m2"
    ELSE "next"

PositionRule ==
    /\ pc = "position"
    /\ LET c == PositionChoice(m2.title, mtree2.title.value, lang) IN
         IF c = "m" THEN Return("m", 167)
         ELSE IF c = "m2" THEN Return("m2", 169)
         ELSE Goto("explicit")
    /\ UNCHANGED <<years, builds, mtree, mtree2, m, m2, lang, parts, warned>>
    /\ UNCHANGED fivars

\* lines 173-176: "m2", "m" or "next"
ExplicitChoice(title, title2) ==
    IF title.explicit THEN "m2"
    ELSE IF title2.explicit THEN "m"
    ELSE "next"

\* lines 173-178
ExplicitRule ==
    /\ pc = "explicit"
    /\ LET c == ExplicitChoice(mtree.title, mtree2.title) IN
         IF c = "m2" THEN Return("m2", 174) /\ UNCHANGED warned
         ELSE IF c = "m" THEN Return("m", 176) /\ UNCHANGED warned
         ELSE /\ warned' = Append(warned, "Not sure of the title because of the language position")
              /\ Return("m", 178)
    /\ UNCHANGED <<years, builds, mtree, mtree2, m, m2, lang, parts>>
    /\ UNCHANGED fivars

NextGF ==
    \/ BuildPrimary
    \/ ScanYears
    \/ MatchPrimary
    \/ BuildBaseline
    \/ CompareTitles
    \/ FindNodes
    \/ PickLang
    \/ ShortCode
    \/ SubtitleRule
    \/ PositionRule
    \/ ExplicitRule

\* the Guess _guess_filename returned
Returned == IF ret = "m2" THEN m2 ELSE m

----------------------------------------------------------------------------
(* Claims about _guess_filename, checked under SpecGF *)

Done == pc = "done"

\* the rules of lines 130-178 were entered: m has a language and a title, and the
\* two titles differ
TitlesDiffer ==
    /\ m.keys \cap LangProps # {}
    /\ GetTitle(m)[1]
    /\ GetTitle(m) # GetTitle(m2)

\* C1: _guess_filename is total: it ends by returning m or m2 and never by a
\* raised error.
Cex_C1 == Done => (exc = "none" /\ ret \in {"m", "m2"})

SkipBuilds == {i \in 1..Len(builds) : "skip_first_year" \in builds[i]}

\* C2: two or more distinct years in the first tree give exactly one reparse
\* with skip_first_year, and the returned Guess carries the year of the reparsed
\* tree whether m or m2 is returned; fewer than two years give no reparse.
Cex_C2 ==
    (Done /\ exc = "none") =>
        /\ Cardinality(years) >= 2 =>
              (Cardinality(SkipBuilds) = 1 /\ Returned.year = mtree.year)
        /\ Cardinality(years) < 2 => SkipBuilds = {}

\* C7 as stated: a language node of length <= 3 anywhere in the primary tree
\* keeps the result from being m2.
Cex_C7 ==
    (Done /\ \E i \in 1..Len(mtree.langs) : Len(mtree.langs[i].value) <= ShortLen)
        => ret # "m2"

\* C7, amended: once the language node is chosen (lines 139-147) and its value
\* has length <= 3, the procedure goes no further than line 153 and returns m.
Thm_C7 ==
    (lang # <<>> /\ Len(lang) <= ShortLen) =>
        /\ pc \in {"short", "done"}
        /\ Done => (ret = "m" /\ exc = "none" /\ via = 153)

\* a short chosen token next to a longer language node, m returned
Wit_C7 ==
    /\ Done /\ ret = "m" /\ via = 153
    /\ Len(lang) = ShortLen
    /\ \E i \in 1..Len(mtree.langs) : Len(mtree.langs[i].value) > ShortLen

\* C8: titles differ and a title node is missing in one of the trees, or the
\* primary tree has no language node: a warning is logged and m is returned.
Cex_C8 ==
    (Done /\ TitlesDiffer
          /\ (~mtree.title.present \/ ~mtree2.title.present \/ mtree.langs = <<>>))
        => (ret = "m" /\ exc = "none" /\ warned # <<>>)

\* line 159 was reached with a subtitle type
AtSubtitleRule ==
    /\ via \in 159..178
    /\ "type" \in m.keys
    /\ m.type \in {"moviesubtitle", "episodesubtitle"}

\* C9: at line 159 with a subtitle type, a language token that is the
\* second-to-last word of the cleaned file name gives m, also when the token
\* occurs earlier too; a token that is no word of it raises nothing.
Cex_C9 ==
    (Done /\ AtSubtitleRule) =>
        /\ (Len(parts) >= 2 /\ parts[Len(parts) - 1] = lang) => (ret = "m" /\ via = 161)
        /\ (\A i \in 1..Len(parts) : parts[i] # lang) => exc = "none"

\* C10: from line 166 on: m2's title starts with the token: m; else the token is
\* inside title2: m2; else m's title under an explicit group: m2; else m2's
\* title under an explicit group: m; else a warning and m.
Thm_C10 ==
    (Done /\ via \in 166..178) =>
        /\ exc = "none"
        /\ IF StartsWith(m2.title, lang) THEN ret = "m" /\ via = 167
           ELSE IF Contains(mtree2.title.value, lang) THEN ret = "m2" /\ via = 169
           ELSE IF mtree.title.explicit THEN ret = "m2" /\ via = 174
           ELSE IF mtree2.title.explicit THEN ret = "m" /\ via = 176
           ELSE ret = "m" /\ via = 178 /\ warned # <<>>

\* m2's title starts with the token, which is therefore inside it too: m
Wit_C10 ==
    /\ Done /\ via = 167 /\ ret = "m"
    /\ StartsWith(m2.title, lang)
    /\ Contains(mtree2.title.value, lang)

----------------------------------------------------------------------------
(* guess_file_info *)

\* an infotype is a text; its first five characters and the rest are kept apart,
\* so that startswith('hash_') and infotype[5:] are computed
Filename == [pre |-> "", rest |-> "filename"]
HashNames == {"mpc", "ed2k", "md5", "sha1", "crc99", "new"}
Unrecognized == {[pre |-> "", rest |-> "bogus_type"], [pre |-> "", rest |-> "filenames"]}
Infotypes ==
    {Filename} \cup [pre : {"hash_"}, rest : HashNames]
               \cup {[pre |-> "", rest |-> "bogus_type"]}

\* the text of an infotype, the key of its fact
Key(it) == it.pre \o it.rest

\* getattr(hashlib, hashname)(): md5 and sha1 are constructors, hashlib.new is a
\* function that needs an argument, any other name is no attribute
hashlib(hashname) ==
    IF hashname \in {"md5", "sha1"} THEN "hasher"
    ELSE IF hashname = "new" THEN "TypeError"
    ELSE "AttributeError"

\* hexdigest() of a hasher of algorithm alg that was fed data
hexdigest(alg, data) == <<alg, data>>

\* a Guess: property name -> [value, confidence (percent)]
EmptyGuess == <<>>
Guess(key, value, conf) == [k \in {key} |-> [value |-> value, conf |-> conf]]

Series == Guess("series", "Show", 80)
Country == Guess("country", [alpha2 |-> "us"], 60)
Title == Guess("title", "Show", 80)

\* what _guess_filename(filename, filetype) gives for the file name at hand
FilenameGuesses == {Series @@ Country, Series, Country, Title}

Envs ==
    {[chunks |-> [i \in 1..n |-> i], ioerror |-> FALSE, guess |-> g, gfraises |-> f] :
        n \in 0..MaxChunks, g \in FilenameGuesses, f \in BOOLEAN}
    \cup
    {[chunks |-> <<>>, ioerror |-> TRUE, guess |-> g, gfraises |-> FALSE] :
        g \in FilenameGuesses}

\* Guess.update_highest_confidence: a property of both keeps its value unless
\* the other's confidence is strictly higher
update_highest_confidence(self, other) ==
    [k \in DOMAIN self \cup DOMAIN other |->
        IF k \notin DOMAIN other THEN self[k]
        ELSE IF k \in DOMAIN self /\ self[k].conf >= other[k].conf THEN self[k]
        ELSE other[k]]

\* merge_all
RECURSIVE merge_from(_, _)
merge_from(acc, guesses) ==
    IF guesses = <<>> THEN acc
    ELSE merge_from(update_highest_confidence(acc, Head(guesses)), Tail(guesses))
merge_all(guesses) ==
    IF guesses = <<>> THEN EmptyGuess ELSE merge_from(Head(guesses), Tail(guesses))

\* str.upper() on the alpha2 codes at hand
upper(code) == IF code = "us" THEN "US" ELSE IF code = "gb" THEN "GB" ELSE code

\* the state of one call of guess_file_info
Call(res, hs, n, op, fin, rs, lg) ==
    [result |-> res, hashers |-> hs, nobjs |-> n, opens |-> op, final |-> fin,
     raised |-> rs, logged |-> lg]
NewCall == Call(<<>>, <<>>, 0, 0, EmptyGuess, "none", 0)

\* lines 204-205; an exception of _guess_filename is not caught here
StepFilename(c, e) ==
    IF e.gfraises
    THEN [c EXCEPT !.raised = "StopIteration"]
    ELSE [c EXCEPT !.result = Append(@, e.guess)]

\* lines 207-221: hash_mpc and hash_ed2k, hash_file reads the file itself
StepHashFile(c, it, e) ==
    IF e.ioerror
    THEN [c EXCEPT !.logged = @ + 1]
    ELSE [c EXCEPT !.result = Append(@, Guess(Key(it), hexdigest(it.rest, e.chunks), 100))]

\* lines 223-230
StepHashlib(c, it) ==
    LET hashname == it.rest
        made == hashlib(hashname) IN
    IF made = "hasher"
    THEN [c EXCEPT !.hashers = Append(@, [infotype |-> it, obj |-> c.nobjs + 1]),
                   !.nobjs = @ + 1]
    ELSE IF made = "AttributeError"
    THEN [c EXCEPT !.logged = @ + 1]
    ELSE [c EXCEPT !.raised = made]

\* an unrecognized infotype that ends the call instead of being logged
StepInvalidRaises(c, it) == [c EXCEPT !.raised = "ValueError"]

\* lines 232-233
StepInvalid(c, it) == [c EXCEPT !.logged = @ + 1]

\* one iteration of the loop of line 203
Step(c, it, e) ==
    IF it = Filename THEN StepFilename(c, e)
    ELSE IF it = [pre |-> "hash_", rest |-> "mpc"] THEN StepHashFile(c, it, e)
    ELSE IF it = [pre |-> "hash_", rest |-> "ed2k"] THEN StepHashFile(c, it, e)
    ELSE IF it.pre = "hash_" THEN StepHashlib(c, it)
    ELSE StepInvalid(c, it)

\* dict(hashers).values(): for each infotype the hasher of its last entry
hasherobjs(hs) ==
    {hs[i].obj : i \in {i \in 1..Len(hs) :
                          \A j \in (i + 1)..Len(hs) : hs[j].infotype # hs[i].infotype}}

\* lines 242-246: every chunk read is fed to every hasher of objs
RECURSIVE ReadLoop(_, _, _)
ReadLoop(data, objs, chunks) ==
    IF chunks = <<>> THEN data
    ELSE ReadLoop([o \in DOMAIN data |->
                      IF o \in objs THEN Append(data[o], Head(chunks)) ELSE data[o]],
                  objs, Tail(chunks))

\* lines 248-250
RECURSIVE HashGuesses(_, _)
HashGuesses(hs, data) ==
    IF hs = <<>> THEN <<>>
    ELSE <<Guess(Key(Head(hs).infotype),
                 hexdigest(Head(hs).infotype.rest, data[Head(hs).obj]), 100)>>
         \o HashGuesses(Tail(hs), data)

\* lines 236-252
HashAll(c, e) ==
    IF c.hashers = <<>> THEN c
    ELSE IF e.ioerror
    THEN [c EXCEPT !.opens = @ + 1, !.logged = @ + 1]
    ELSE LET data == ReadLoop([o \in 1..c.nobjs |-> <<>>], hasherobjs(c.hashers), e.chunks)
         IN [c EXCEPT !.opens = @ + 1,
                      !.result = @ \o HashGuesses(c.hashers, data)]

\* the adjustment of lines 259-260 made twice
CountryFoldTwice(g) ==
    IF "series" \in DOMAIN g /\ "country" \in DOMAIN g
    THEN [g EXCEPT !["series"].value =
             @ \o " (" \o upper(g["country"].value.alpha2) \o ")"
               \o " (" \o upper(g["country"].value.alpha2) \o ")"]
    ELSE g

\* lines 259-260
CountryFold(g) ==
    IF "series" \in DOMAIN g /\ "country" \in DOMAIN g
    THEN [g EXCEPT !["series"].value =
             @ \o " (" \o upper(g["country"].value.alpha2) \o ")"]
    ELSE g

\* lines 254-263
Assemble(c) == [c EXCEPT !.final = CountryFold(merge_all(c.result))]

\* guess_file_info(filename, filetype, requested) as a whole
RECURSIVE Loop(_, _, _)
Loop(c, requested, e) ==
    IF requested = <<>> \/ c.raised # "none" THEN c
    ELSE Loop(Step(c, Head(requested), e), Tail(requested), e)
guess_file_info(requested, e) ==
    LET c == Loop(NewCall, requested, e) IN
    IF c.raised # "none" THEN c ELSE Assemble(HashAll(c, e))

StartFI ==
    /\ fpc = "loop"
    /\ env \in Envs
    /\ info = <<>>
    /\ result = <<>>
    /\ hashers = <<>>
    /\ nobjs = 0
    /\ opens = 0
    /\ final = EmptyGuess
    /\ raised = "none"
    /\ logged = 0

IdleFI ==
    /\ fpc = "idle"
    /\ env = [chunks |-> <<>>, ioerror |-> FALSE, guess |-> EmptyGuess, gfraises |-> FALSE]
    /\ info = <<>>
    /\ result = <<>>
    /\ hashers = <<>>
    /\ nobjs = 0
    /\ opens = 0
    /\ final = EmptyGuess
    /\ raised = "none"
    /\ logged = 0

Cur == Call(result, hashers, nobjs, opens, final, raised, logged)

Become(c, next) ==
    /\ result' = c.result
    /\ hashers' = c.hashers
    /\ nobjs' = c.nobjs
    /\ opens' = c.opens
    /\ final' = c.final
    /\ raised' = c.raised
    /\ logged' = c.logged
    /\ fpc' = IF c.raised # "none" THEN "done" ELSE next

\* one iteration of the loop of line 203 on the infotype it
Iterate(it) ==
    /\ fpc = "loop"
    /\ Len(info) < MaxInfo
    /\ info' = Append(info, it)
    /\ Become(Step(Cur, it, env), "loop")
    /\ UNCHANGED env
    /\ UNCHANGED gfvars

RequestFilename ==
    /\ fpc = "loop"
    /\ Iterate(Filename)

RequestHashMpc ==
    /\ fpc = "loop"
    /\ Iterate([pre |-> "hash_", rest |-> "mpc"])

RequestHashEd2k ==
    /\ fpc = "loop"
    /\ Iterate([pre |-> "hash_", rest |-> "ed2k"])

RequestHashlib ==
    /\ fpc = "loop"
    /\ \E name \in HashNames \ {"mpc", "ed2k"} : Iterate([pre |-> "hash_", rest |-> name])

RequestInvalid ==
    /\ fpc = "loop"
    /\ \E it \in Infotypes : it # Filename /\ it.pre # "hash_" /\ Iterate(it)

\* the list is consumed; lines 236-252
HashPass ==
    /\ fpc = "loop"
    /\ Become(HashAll(Cur, env), "merge")
    /\ UNCHANGED <<env, info>>
    /\ UNCHANGED gfvars

\* lines 254-263
Finish ==
    /\ fpc = "merge"
    /\ Become(Assemble(Cur), "done")
    /\ UNCHANGED <<env, info>>
    /\ UNCHANGED gfvars

NextFI ==
    \/ RequestFilename
    \/ RequestHashMpc
    \/ RequestHashEd2k
    \/ RequestHashlib
    \/ RequestInvalid
    \/ HashPass
    \/ Finish

\* _guess_filename is called; no call of guess_file_info is under way
InitGF ==
    /\ StartGF
    /\ IdleFI

\* guess_file_info is called; _guess_filename's answer is part of env
InitFI ==
    /\ StartFI
    /\ StartGF

SpecGF == InitGF /\ [][NextGF]_vars

SpecFI == InitFI /\ [][NextFI]_vars

----------------------------------------------------------------------------
(* Claims about guess_file_info, checked under SpecFI *)

DoneFI == fpc = "done"

HashlibTypes == {it \in Infotypes : it.pre = "hash_" /\ it.rest \notin {"mpc", "ed2k"}}
Requested == {info[i] : i \in 1..Len(info)}

\* C3: whatever the list, the file is read in one pass and every hash_<algorithm>
\* value of the result is the digest of the whole file content.
Cex_C3 ==
    (DoneFI /\ raised = "none") =>
        /\ opens <= 1
        /\ \A it \in HashlibTypes :
              Key(it) \in DOMAIN final =>
                  final[Key(it)].value = hexdigest(it.rest, env.chunks)

\* the digest of it cannot be computed
DigestFails(it) ==
    \/ env.ioerror
    \/ it \in HashlibTypes /\ hashlib(it.rest) # "hasher"

\* C4: a failing digest is logged and only its entry is missing; every other
\* requested fact is in the result, and the call does not raise.
Cex_C4 ==
    (DoneFI /\ ~env.gfraises) =>
        /\ raised = "none"
        /\ \A it \in Requested :
              (it.pre = "hash_" /\ ~DigestFails(it)) => Key(it) \in DOMAIN final
        /\ Filename \in Requested => \A k \in DOMAIN env.guess : k \in DOMAIN final

InsertAt(s, pos, x) == SubSeq(s, 1, pos) \o <<x>> \o SubSeq(s, pos + 1, Len(s))
RemoveAt(s, pos) == SubSeq(s, 1, pos - 1) \o SubSeq(s, pos + 1, Len(s))

\* what the caller of guess_file_info sees
Outcome(c) == [final |-> c.final, raised |-> c.raised]

\* C5: an unrecognized name inserted at any position of the list leaves what
\* the caller sees as it is with the list alone: the same result, and no error
\* that the list alone does not raise.
Thm_C5 ==
    DoneFI =>
        \A x \in Unrecognized : \A pos \in 0..Len(info) :
            Outcome(guess_file_info(InsertAt(info, pos, x), env)) = Outcome(Cur)

\* a call with an unrecognized name between recognized ones returned facts, the
\* same as without the name
Wit_C5 ==
    /\ DoneFI /\ raised = "none"
    /\ Len(info) = 3 /\ info[2] \in Unrecognized
    /\ info[1] = Filename /\ info[3].pre = "hash_"
    /\ Key(info[3]) \in DOMAIN final
    /\ Outcome(guess_file_info(RemoveAt(info, 2), env)) = Outcome(Cur)

\* C6: the country is folded into the series once, after the merge: with series
\* and country in the merged result the series is the merged series followed by
\* " (XX)", else the merged facts are returned as they are; also when
\* 'filename' is requested more than once.
Thm_C6 ==
    (DoneFI /\ raised = "none" /\ Filename \in Requested) =>
        /\ DOMAIN env.guess \subseteq DOMAIN final
        /\ \A k \in DOMAIN env.guess :
              IF k = "series" /\ "country" \in DOMAIN env.guess
              THEN final[k].value =
                     env.guess[k].value \o " ("
                        \o upper(env.guess["country"].value.alpha2) \o ")"
              ELSE final[k].value = env.guess[k].value

\* 'filename' requested twice, series and country merged, the code appended once
Wit_C6 ==
    /\ DoneFI /\ raised = "none"
    /\ Cardinality({i \in 1..Len(info) : info[i] = Filename}) >= 2
    /\ "country" \in DOMAIN final
    /\ "series" \in DOMAIN final
    /\ final["series"].value = "Show (US)"

====
